---- MODULE Spec2Model ----
(***************************************************************************)
(* The batch session of src/src/emailWorker.ts: the worker-global session  *)
(* state, the 'reset' / 'finalize' / 'process' message handler, the        *)
(* streaming tabular parse (chunk and complete callbacks) and the text     *)
(* scan; and the controller that drives it, runBatchProcessing.  Strings   *)
(* are sequences of one-character strings, so lower-casing, trimming,      *)
(* splitting and the two regular expressions are computed.                 *)
(*                                                                         *)
(* Spec is the worker under any sender at all; SpecBatch is the worker     *)
(* under runBatchProcessing, with the two message channels between them.   *)
(***************************************************************************)
EXTENDS Integers, Sequences, FiniteSets, TLC

\* ------------------------------------------------------------------ bounds
\* rows of one tabular file, and tokens of one text source
MaxSourceLen == 2
\* candidates examined plus rows of the parses still in flight
MaxTotalRows == 3
\* messages posted by the worker plus parses still to post their completion
MaxPosted == 2
\* staged sources of one batch
MaxStaged == 2

\* ----------------------------------------------------------------- strings
LowerAlpha ==
  <<"a", "b", "c", "d", "e", "f", "g", "h", "i", "j", "k", "l", "m",
    "n", "o", "p", "q", "r", "s", "t", "u", "v", "w", "x", "y", "z">>

UpperAlpha ==
  <<"A", "B", "C", "D", "E", "F", "G", "H", "I", "J", "K", "L", "M",
    "N", "O", "P", "Q", "R", "S", "T", "U", "V", "W", "X", "Y", "Z">>

Digits == {"0", "1", "2", "3", "4", "5", "6", "7", "8", "9"}

Range(s) == {s[i] : i \in 1..Len(s)}

Alpha == Range(LowerAlpha) \cup Range(UpperAlpha)

\* \s of the regular expressions, and what String.prototype.trim removes
Whitespace == {" ", "\t", "\n", "\r"}

\* the lower-case letter of each upper-case letter
LowerOf ==
  [c \in Range(UpperAlpha) |->
     LowerAlpha[CHOOSE i \in 1..Len(UpperAlpha) : UpperAlpha[i] = c]]

ToLowerChar(c) == IF c \in DOMAIN LowerOf THEN LowerOf[c] ELSE c

toLowerCase(s) == [i \in 1..Len(s) |-> ToLowerChar(s[i])]

trim(s) ==
  IF \A i \in 1..Len(s) : s[i] \in Whitespace
  THEN <<>>
  ELSE LET first == CHOOSE i \in 1..Len(s) :
                      /\ s[i] \notin Whitespace
                      /\ \A j \in 1..(i - 1) : s[j] \in Whitespace
           last  == CHOOSE i \in 1..Len(s) :
                      /\ s[i] \notin Whitespace
                      /\ \A j \in (i + 1)..Len(s) : s[j] \in Whitespace
       IN  SubSeq(s, first, last)

startsWith(s, p) == Len(p) <= Len(s) /\ SubSeq(s, 1, Len(p)) = p

endsWith(s, p) == Len(p) <= Len(s) /\ SubSeq(s, Len(s) - Len(p) + 1, Len(s)) = p

RECURSIVE split(_, _)
\* String.prototype.split with a one-character separator
split(s, sep) ==
  IF \A i \in 1..Len(s) : s[i] # sep
  THEN <<s>>
  ELSE LET k == CHOOSE i \in 1..Len(s) :
                  s[i] = sep /\ \A j \in 1..(i - 1) : s[j] # sep
       IN  <<SubSeq(s, 1, k - 1)>> \o split(SubSeq(s, k + 1, Len(s)), sep)

\* an array slot read past the end is undefined: no string at all
Undefined == <<"undefined">>

At(parts, i) == IF i <= Len(parts) THEN parts[i] ELSE Undefined

\* ------------------------------------------------- configuration constants
DISPOSABLE_DOMAINS ==
  { <<"t", "e", "m", "p", "m", "a", "i", "l", ".", "c", "o", "m">>,
    <<"t", "h", "r", "o", "w", "a", "w", "a", "y", "m", "a", "i", "l", ".", "c", "o", "m">>,
    <<"1", "0", "m", "i", "n", "u", "t", "e", "m", "a", "i", "l", ".", "c", "o", "m">>,
    <<"m", "a", "i", "l", "i", "n", "a", "t", "o", "r", ".", "c", "o", "m">>,
    <<"g", "u", "e", "r", "r", "i", "l", "l", "a", "m", "a", "i", "l", ".", "c", "o", "m">>,
    <<"s", "h", "a", "r", "k", "l", "a", "s", "e", "r", "s", ".", "c", "o", "m">>,
    <<"d", "i", "s", "p", "o", "s", "t", "a", "b", "l", "e", ".", "c", "o", "m">>,
    <<"y", "o", "p", "m", "a", "i", "l", ".", "c", "o", "m">> }

ROLE_PREFIXES ==
  << <<"a", "d", "m", "i", "n">>,
     <<"s", "u", "p", "p", "o", "r", "t">>,
     <<"i", "n", "f", "o">>,
     <<"s", "a", "l", "e", "s">>,
     <<"h", "e", "l", "l", "o">>,
     <<"c", "o", "n", "t", "a", "c", "t">>,
     <<"b", "i", "l", "l", "i", "n", "g">>,
     <<"j", "o", "b", "s">>,
     <<"m", "a", "r", "k", "e", "t", "i", "n", "g">>,
     <<"o", "f", "f", "i", "c", "e">>,
     <<"w", "e", "b", "m", "a", "s", "t", "e", "r">>,
     <<"n", "o", "r", "e", "p", "l", "y">>,
     <<"h", "e", "l", "p">>,
     <<"e", "n", "q", "u", "i", "r", "y">> >>

PERSONAL_DOMAINS ==
  { <<"g", "m", "a", "i", "l", ".", "c", "o", "m">>,
    <<"y", "a", "h", "o", "o", ".", "c", "o", "m">>,
    <<"h", "o", "t", "m", "a", "i", "l", ".", "c", "o", "m">>,
    <<"o", "u", "t", "l", "o", "o", "k", ".", "c", "o", "m">>,
    <<"i", "c", "l", "o", "u", "d", ".", "c", "o", "m">>,
    <<"a", "o", "l", ".", "c", "o", "m">>,
    <<"p", "r", "o", "t", "o", "n", "m", "a", "i", "l", ".", "c", "o", "m">>,
    <<"z", "o", "h", "o", ".", "c", "o", "m">>,
    <<"m", "e", ".", "c", "o", "m">>,
    <<"m", "s", "n", ".", "c", "o", "m">> }

\* -------------------------------------------------------------- classifier
\* a domain test that accepts every sub-domain of a disposable domain
validateEmailSubDomains(email) ==
  LET parts     == split(toLowerCase(email), "@")
      localPart == At(parts, 1)
      domain    == At(parts, 2)
  IN  [ isDisposable |-> \E d \in DISPOSABLE_DOMAINS : endsWith(domain, d),
        isRoleBased  |-> \E p \in 1..Len(ROLE_PREFIXES) :
                            \/ localPart = ROLE_PREFIXES[p]
                            \/ startsWith(localPart, ROLE_PREFIXES[p] \o <<".">>) ]

\* a prefix test that does not ask for the '.' after the prefix
\* a classifier that compares the address as written: email.toLowerCase()
\* left out
validateEmailAsWritten(email) ==
  LET parts     == split(email, "@")
      localPart == At(parts, 1)
      domain    == At(parts, 2)
  IN  [ isDisposable |-> domain \in DISPOSABLE_DOMAINS,
        isRoleBased  |-> \E p \in 1..Len(ROLE_PREFIXES) :
                            \/ localPart = ROLE_PREFIXES[p]
                            \/ startsWith(localPart, ROLE_PREFIXES[p] \o <<".">>) ]

validateEmailAnyPrefix(email) ==
  LET parts     == split(toLowerCase(email), "@")
      localPart == At(parts, 1)
      domain    == At(parts, 2)
  IN  [ isDisposable |-> domain \in DISPOSABLE_DOMAINS,
        isRoleBased  |-> \E p \in 1..Len(ROLE_PREFIXES) :
                            \/ localPart = ROLE_PREFIXES[p]
                            \/ startsWith(localPart, ROLE_PREFIXES[p]) ]

validateEmail(email) ==
  LET parts     == split(toLowerCase(email), "@")
      localPart == At(parts, 1)
      domain    == At(parts, 2)
  IN  [ isDisposable |-> domain \in DISPOSABLE_DOMAINS,
        isRoleBased  |-> \E p \in 1..Len(ROLE_PREFIXES) :
                            \/ localPart = ROLE_PREFIXES[p]
                            \/ startsWith(localPart, ROLE_PREFIXES[p] \o <<".">>) ]

\* a provider test that takes every sub-domain of a personal domain too
analyzeDomainSubDomains(domain) ==
  LET parts == split(domain, ".")
  IN  [ tld  |-> parts[Len(parts)],
        type |-> IF \E d \in PERSONAL_DOMAINS : endsWith(domain, d)
                 THEN "Personal" ELSE "Corporate" ]

\* tld taken as parts[1], the part after the first '.'
analyzeDomainSecondPart(domain) ==
  LET parts == split(domain, ".")
  IN  [ tld  |-> At(parts, 2),
        type |-> IF domain \in PERSONAL_DOMAINS THEN "Personal" ELSE "Corporate" ]

analyzeDomain(domain) ==
  LET parts == split(domain, ".")
  IN  [ tld  |-> parts[Len(parts)],
        type |-> IF domain \in PERSONAL_DOMAINS THEN "Personal" ELSE "Corporate" ]

\* /^[^\s@]+@[^\s@]+\.[^\s@]+$/.test(email)
NotSpaceAt(s, lo, hi) ==
  /\ lo <= hi
  /\ \A i \in lo..hi : s[i] \notin Whitespace /\ s[i] # "@"

\* the pattern without its '\.': /^[^\s@]+@[^\s@]+$/
syntaxTestNoDot(email) ==
  \E a \in 1..Len(email) :
     /\ email[a] = "@"
     /\ NotSpaceAt(email, 1, a - 1)
     /\ NotSpaceAt(email, a + 1, Len(email))

syntaxTest(email) ==
  \E a \in 1..Len(email) : \E d \in 1..Len(email) :
     /\ a < d
     /\ email[a] = "@"
     /\ email[d] = "."
     /\ NotSpaceAt(email, 1, a - 1)
     /\ NotSpaceAt(email, a + 1, d - 1)
     /\ NotSpaceAt(email, d + 1, Len(email))

\* ------------------------------------------------------------ text extractor
\* the three character classes of
\*   /[a-zA-Z0-9._%+-]+@[a-zA-Z0-9.-]+\.[a-zA-Z]{2,}/g
LocalChars == Alpha \cup Digits \cup {".", "_", "%", "+", "-"}

DomainChars == Alpha \cup Digits \cup {".", "-"}

AllIn(s, lo, hi, class) == \A i \in lo..hi : s[i] \in class

\* The ways the pattern matches at start position st: the '@' at position at,
\* the '\.' at position dot, the last character at position end.
MatchesAt(text, st) ==
  UNION { UNION { { [at |-> a, dot |-> d, end |-> e] :
                      e \in { x \in (d + 2)..Len(text) :
                                AllIn(text, d + 1, x, Alpha) } } :
                  d \in { x \in (a + 2)..Len(text) :
                            /\ text[x] = "."
                            /\ AllIn(text, a + 1, x - 1, DomainChars) } } :
          a \in { x \in (st + 1)..Len(text) :
                    /\ text[x] = "@"
                    /\ AllIn(text, st, x - 1, LocalChars) } }

\* Every quantifier is greedy: of the ways to match at st the engine returns
\* the one with the longest local part, then the longest domain, then the
\* longest final label.
GreedyMatchAt(text, st) ==
  CHOOSE m \in MatchesAt(text, st) :
    \A o \in MatchesAt(text, st) :
       \/ o.at < m.at
       \/ o.at = m.at /\ o.dot < m.dot
       \/ o.at = m.at /\ o.dot = m.dot /\ o.end <= m.end

RECURSIVE matchFrom(_, _)
\* String.prototype.match with the g flag, scanning from position pos: the
\* leftmost match, then the scan resumes right after it. null || [] is <<>>.
matchFrom(text, pos) ==
  LET starts == {st \in pos..Len(text) : MatchesAt(text, st) # {}}
  IN  IF starts = {}
      THEN <<>>
      ELSE LET st == CHOOSE x \in starts : \A y \in starts : x <= y
               m  == GreedyMatchAt(text, st)
           IN  <<SubSeq(text, st, m.end)>> \o matchFrom(text, m.end + 1)

rawMatches(text) == matchFrom(text, 1)

\* ----------------------------------------------------------- session state
VARIABLES
  seenEmails,   \* Set<string>: the normalized addresses accepted so far
  valid,        \* the classified records, in the order they were pushed
  disposable,   \* addresses of the records flagged isDisposable
  roleBased,    \* addresses of the records flagged isRoleBased
  invalid,      \* the values that failed the syntax check
  stats,        \* { totalRows, duplicates, syntaxErrors }
  parses,       \* the Papa.parse calls in flight: file name, number of rows
                \* not yet delivered to the chunk callback, selected column,
                \* and whether reading the file has failed
  outbox,       \* the messages posted with self.postMessage, oldest first
  log,          \* history: the candidates examined and the resets handled
  stagedFiles,  \* App state: the FileStage list
  isProcessing, \* App state
  results,      \* App state: ProcessingResults, or null
  inbox,        \* the messages posted with worker.postMessage and not yet
                \* handled by the worker, oldest first
  delivered,    \* how many messages of outbox were dispatched to the
                \* listeners of the main thread
  pc,           \* where runBatchProcessing stands
  cur,          \* the stage its for loop is at
  call,         \* the classifier function applied on its own, and its argument
  ret           \* what it returned

workerVars ==
  <<seenEmails, valid, disposable, roleBased, invalid, stats, parses, outbox, log>>

mainVars == <<stagedFiles, isProcessing, results, delivered, pc, cur>>

appVars == <<stagedFiles, isProcessing, results, inbox, delivered, pc, cur>>

callVars == <<call, ret>>

vars ==
  <<seenEmails, valid, disposable, roleBased, invalid, stats, parses, outbox, log,
    stagedFiles, isProcessing, results, inbox, delivered, pc, cur, call, ret>>

ZeroStats == [totalRows |-> 0, duplicates |-> 0, syntaxErrors |-> 0]

\* the session as one value, for the row-by-row folds of the handlers
Session ==
  [ seenEmails |-> seenEmails, valid |-> valid, disposable |-> disposable,
    roleBased |-> roleBased, invalid |-> invalid, stats |-> stats ]

EmptySession ==
  [ seenEmails |-> {}, valid |-> <<>>, disposable |-> <<>>,
    roleBased |-> <<>>, invalid |-> <<>>, stats |-> ZeroStats ]

\* the spread written last: { extractedEmail, domain, ..., ...row }, so that
\* the row's fields replace the derived ones of the same name
SpreadRowLast(row, fields) ==
  [ k \in (DOMAIN row) \cup (DOMAIN fields) |->
      IF k \in DOMAIN row THEN row[k] ELSE fields[k] ]

\* { ...row, extractedEmail, domain, tld, type, isDisposable, isRoleBased }:
\* the fields written later replace the row's fields of the same name
Spread(row, fields) ==
  [ k \in (DOMAIN row) \cup (DOMAIN fields) |->
      IF k \in DOMAIN fields THEN fields[k] ELSE row[k] ]

Derived(email) ==
  LET domain == At(split(email, "@"), 2)
      flags  == validateEmail(email)
      dom    == analyzeDomain(domain)
  IN  [ extractedEmail |-> email, domain |-> domain, tld |-> dom.tld,
        type |-> dom.type, isDisposable |-> flags.isDisposable,
        isRoleBased |-> flags.isRoleBased ]

\* stats.totalRows++
countRow(s) == [s EXCEPT !.stats.totalRows = @ + 1]

\* stats.syntaxErrors++
countSyntaxError(s) == [s EXCEPT !.stats.syntaxErrors = @ + 1]

\* stats.duplicates++ left out
countDuplicateLost(s) == s

\* stats.duplicates++
countDuplicate(s) == [s EXCEPT !.stats.duplicates = @ + 1]

\* a test for the absent field only: rawEmail === undefined
MissingAbsentOnly(row, selectedColumn) == selectedColumn \notin DOMAIN row

\* !rawEmail for row[selectedColumn]: the row has no such field, or it is ''
Missing(row, selectedColumn) ==
  \/ selectedColumn \notin DOMAIN row
  \/ row[selectedColumn] = <<>>

\* toLowerCase() left out
normalizeTrimOnly(rawEmail) == trim(rawEmail)

\* String(rawEmail).toLowerCase().trim()
normalize(rawEmail) == trim(toLowerCase(rawEmail))

\* the malformed value entered into the dedup set as well
pushInvalidSeen(s, email) ==
  [s EXCEPT !.invalid = Append(@, email), !.seenEmails = @ \cup {email}]

\* the malformed value kept once: not pushed when invalid already holds it
pushInvalidOnce(s, email) ==
  IF \E k \in 1..Len(s.invalid) : s.invalid[k] = email
  THEN s
  ELSE [s EXCEPT !.invalid = Append(@, email)]

\* invalid.push(email)
pushInvalid(s, email) == [s EXCEPT !.invalid = Append(@, email)]

\* seenEmails.add(email) left out
addSeenLost(s, email) == s

\* the dedup set replaced by the latest address: seenEmails = new Set([email])
addSeenOnly(s, email) == [s EXCEPT !.seenEmails = {email}]

\* seenEmails.add(email)
addSeen(s, email) == [s EXCEPT !.seenEmails = @ \cup {email}]

\* valid.unshift(record)
unshiftValid(s, rec) == [s EXCEPT !.valid = <<rec>> \o @]

\* valid.push(record)
pushValid(s, rec) == [s EXCEPT !.valid = Append(@, rec)]

\* the second test made an else-branch of the first: an address flagged both
\* ways goes to disposable only
pushFlaggedEither(s, rec, email) ==
  [s EXCEPT !.disposable = IF rec.isDisposable THEN Append(@, email) ELSE @,
            !.roleBased  = IF ~rec.isDisposable /\ rec.isRoleBased
                           THEN Append(@, email) ELSE @]

\* if (isDisposable) disposable.push(email); if (isRoleBased) roleBased.push(email)
pushFlagged(s, rec, email) ==
  [s EXCEPT !.disposable = IF rec.isDisposable THEN Append(@, email) ELSE @,
            !.roleBased  = IF rec.isRoleBased THEN Append(@, email) ELSE @]

\* the body of results.data.forEach in the chunk callback
ingestRow(s, row, selectedColumn) ==
  IF Missing(row, selectedColumn)
  THEN countSyntaxError(countRow(s))
  ELSE
    LET rawEmail == row[selectedColumn]
        email    == normalize(rawEmail)
        counted  == countRow(s)
    IN  IF email \in s.seenEmails
        THEN countDuplicate(counted)
        ELSE IF ~syntaxTest(email)
        THEN countSyntaxError(pushInvalid(counted, email))
        ELSE LET rec == Spread(row, Derived(email))
             IN  pushFlagged(pushValid(addSeen(counted, email), rec), rec, email)

RECURSIVE chunk(_, _, _)
\* the chunk callback: results.data.forEach over the rows of one chunk
chunk(s, rows, selectedColumn) ==
  IF rows = <<>>
  THEN s
  ELSE chunk(ingestRow(s, Head(rows), selectedColumn), Tail(rows), selectedColumn)

\* .toLowerCase() left out
cleanMatchTrimOnly(email) == trim(email)

\* email.toLowerCase().trim() in the text branch
cleanMatch(email) == trim(toLowerCase(email))

\* a text branch that flags a repeated match as invalid, as a row's malformed
\* value is, in place of counting a duplicate
ingestMatchFlagsRepeat(s, email) ==
  LET counted == countRow(s)
      clean   == cleanMatch(email)
  IN  IF clean \in s.seenEmails
      THEN countSyntaxError(pushInvalid(counted, clean))
      ELSE LET rec == Derived(clean)
           IN  pushFlagged(pushValid(addSeen(counted, clean), rec), rec, clean)

\* the body of rawMatches.forEach in the text branch
ingestMatch(s, email) ==
  LET counted == countRow(s)
      clean   == cleanMatch(email)
  IN  IF clean \in s.seenEmails
      THEN countDuplicate(counted)
      ELSE LET rec == Derived(clean)
           IN  pushFlagged(pushValid(addSeen(counted, clean), rec), rec, clean)

RECURSIVE forEachMatch(_, _)
\* rawMatches.forEach
forEachMatch(s, matches) ==
  IF matches = <<>>
  THEN s
  ELSE forEachMatch(ingestMatch(s, Head(matches)), Tail(matches))

\* seenEmails.clear() left out
resetSessionKeepsSeen(s) == [EmptySession EXCEPT !.seenEmails = s.seenEmails]

\* invalid = [] left out
resetSessionKeepsInvalid(s) == [EmptySession EXCEPT !.invalid = s.invalid]

\* disposable = roleBased written for disposable = []
resetSessionSwaps(s) == [EmptySession EXCEPT !.disposable = s.roleBased]

\* the session after the assignments of the 'reset' branch
resetSession(s) == EmptySession

\* the variables take the fields of a session value
Becomes(s) ==
  /\ seenEmails' = s.seenEmails
  /\ valid' = s.valid
  /\ disposable' = s.disposable
  /\ roleBased' = s.roleBased
  /\ invalid' = s.invalid
  /\ stats' = s.stats

SessionUnchanged ==
  UNCHANGED <<seenEmails, valid, disposable, roleBased, invalid, stats>>

\* ----------------------------------------------------------------- history
\* What the worker was given, in the order it examined it: one entry per row
\* of a chunk (the value at the selected column, or missing), one per match
\* of a text, one per 'reset'.  No action reads it.
RowEntry(row, selectedColumn) ==
  IF Missing(row, selectedColumn)
  THEN [kind |-> "row", missing |-> TRUE, raw |-> <<>>]
  ELSE [kind |-> "row", missing |-> FALSE, raw |-> row[selectedColumn]]

TextEntry(match) == [kind |-> "text", missing |-> FALSE, raw |-> match]

ResetEntry == [kind |-> "reset", missing |-> FALSE, raw |-> <<>>]

Examined == {j \in 1..Len(log) : log[j].kind # "reset"}

\* the position of the last reset, 0 when there was none
LastReset ==
  IF \A j \in 1..Len(log) : log[j].kind # "reset"
  THEN 0
  ELSE CHOOSE j \in 1..Len(log) :
         log[j].kind = "reset" /\ \A k \in (j + 1)..Len(log) : log[k].kind # "reset"

\* the candidates examined since the last reset, oldest first
sessionLog == SubSeq(log, LastReset + 1, Len(log))

\* ---------------------------------------------------------------- messages
ResetCompleteMsg == [action |-> "reset_complete"]

Snapshot ==
  [ valid |-> valid, disposable |-> disposable, roleBased |-> roleBased,
    invalid |-> invalid, stats |-> stats ]

ResultMsg == [action |-> "result", results |-> Snapshot]

FileCompleteMsg(filename) == [action |-> "file_complete", filename |-> filename]

\* the results of earlier 'result' messages not cloned: they alias the
\* session, and show its present contents whenever the channel is used
postMessageShared(msg) ==
  outbox' = Append([i \in 1..Len(outbox) |->
                      IF outbox[i].action = "result"
                      THEN [outbox[i] EXCEPT !.results = Snapshot]
                      ELSE outbox[i]], msg)

\* self.postMessage: the message is structured-cloned onto the channel
postMessage(msg) == outbox' = Append(outbox, msg)

\* ------------------------------------------------------------------ inputs
\* the header fields of the tabular files, and the selectors a 'process'
\* message may carry ('' when the collaborator chose none)
Selectors == {"Email", "domain", ""}

Rows ==
  { [Email |-> <<" ", "A", "@", "M", "e", ".", "C", "O", "M", " ">>, domain |-> <<"Z", "@", "z">>],
    [Email |-> <<"x", "@", "y", "o", "p", "m", "a", "i", "l", ".", "c", "o", "m">>],
    [Email |-> <<" ">>],
    [Email |-> <<>>] }

SeqsUpTo(S, n) == UNION { [1..k -> S] : k \in 0..n }

CsvName == <<"l", "i", "s", "t", ".", "c", "s", "v">>

TxtName == <<"n", "o", "t", "e", "s", ".", "t", "x", "t">>

RawText == <<"R", "a", "w", " ", "T", "e", "x", "t">>

FileNames == {CsvName}

\* A file is an opaque handle in the 'process' message; what the model keeps
\* of it is its name and its number of data rows.  The rows themselves are
\* drawn when the streaming reader delivers them to the chunk callback.
Files == [name : FileNames, rows : 0..MaxSourceLen]

Tokens ==
  { <<"A", "@", "m", "e", ".", "c", "o", "m">>,
    <<"i", "n", "f", "o", "@", "y", "o", "p", "m", "a", "i", "l", ".", "c", "o", "m">>,
    <<"b", "a", "d">> }

RECURSIVE Join(_)
Join(toks) ==
  IF toks = <<>> THEN <<>>
  ELSE IF Len(toks) = 1 THEN Head(toks)
  ELSE Head(toks) \o <<",", " ">> \o Join(Tail(toks))

\* the text blobs: up to MaxSourceLen tokens separated by ", "; '' included
Texts == { Join(toks) : toks \in SeqsUpTo(Tokens, MaxSourceLen) }

\* text.match(emailRegex) || [] for every text blob, tabulated
Matches == [text \in Texts |-> rawMatches(text)]

RECURSIVE SumLen(_)
SumLen(ps) == IF ps = <<>> THEN 0 ELSE Head(ps).remaining + SumLen(Tail(ps))

\* candidates examined so far plus rows still to be delivered
RowsInPlay == Cardinality(Examined) + SumLen(parses)

\* messages posted plus completions still to be posted
PostsInPlay == Len(outbox) + Len(parses)

\* ------------------------------------------------------------------ actions
InitWorker ==
  /\ seenEmails = {}
  /\ valid = <<>>
  /\ disposable = <<>>
  /\ roleBased = <<>>
  /\ invalid = <<>>
  /\ stats = ZeroStats
  /\ parses = <<>>
  /\ outbox = <<>>
  /\ log = <<>>

\* useState<ProcessingResults | null>(null)
Null == [null |-> TRUE]

\* the App before any file is staged
InitApp ==
  /\ stagedFiles = <<>>
  /\ isProcessing = FALSE
  /\ results = Null
  /\ inbox = <<>>
  /\ delivered = 0
  /\ pc = "idle"
  /\ cur = 0

\* a reset that also aborts the parses under way
HandleResetStopsParses ==
  /\ Becomes(resetSession(Session))
  /\ postMessage(ResetCompleteMsg)
  /\ log' = Append(log, ResetEntry)
  /\ parses' = <<>>

\* onmessage, action === 'reset'
HandleReset ==
  /\ Becomes(resetSession(Session))
  /\ postMessage(ResetCompleteMsg)
  /\ log' = Append(log, ResetEntry)
  /\ UNCHANGED parses

\* a finalize that also starts the next session
HandleFinalizeAndClear ==
  /\ postMessage(ResultMsg)
  /\ Becomes(EmptySession)
  /\ UNCHANGED <<parses, log>>

\* onmessage, action === 'finalize'
HandleFinalize ==
  /\ postMessage(ResultMsg)
  /\ SessionUnchanged
  /\ UNCHANGED <<parses, log>>

\* onmessage, action === 'process' with a file: Papa.parse starts streaming
\* it; the rows reach the chunk callback in later tasks
HandleProcessFile(file, selectedColumn) ==
  /\ parses' = Append(parses, [name |-> file.name, remaining |-> file.rows,
                               selectedColumn |-> selectedColumn,
                               failed |-> FALSE])
  /\ SessionUnchanged
  /\ UNCHANGED <<outbox, log>>

\* onmessage, action === 'process' without a file: the text branch when text
\* is truthy, nothing at all when it is ''
HandleProcessText(text) ==
  IF text # <<>>
  THEN /\ Becomes(forEachMatch(Session, Matches[text]))
       /\ postMessage(FileCompleteMsg(RawText))
       /\ log' = log \o [j \in 1..Len(Matches[text]) |-> TextEntry(Matches[text][j])]
       /\ UNCHANGED parses
  ELSE UNCHANGED workerVars

\* the chunk callback of parse i, called with the next rows of its file
ParseChunk(i, rows) ==
  /\ ~parses[i].failed
  /\ rows # <<>>
  /\ Len(rows) <= parses[i].remaining
  /\ Becomes(chunk(Session, rows, parses[i].selectedColumn))
  /\ parses' = [parses EXCEPT ![i].remaining = @ - Len(rows)]
  /\ log' = log \o [j \in 1..Len(rows) |-> RowEntry(rows[j], parses[i].selectedColumn)]
  /\ UNCHANGED outbox

\* the complete callback of parse i, once all its rows were delivered
ParseComplete(i) ==
  /\ ~parses[i].failed
  /\ parses[i].remaining = 0
  /\ postMessage(FileCompleteMsg(parses[i].name))
  /\ parses' = [k \in 1..(Len(parses) - 1) |->
                  IF k < i THEN parses[k] ELSE parses[k + 1]]
  /\ SessionUnchanged
  /\ UNCHANGED log

\* Reading the file of parse i fails (the file was moved, or can no longer be
\* read).  Papa.parse was given a chunk and a complete callback and no error
\* callback: nothing of the worker runs for this parse again.
ParseError(i) ==
  /\ ~parses[i].failed
  /\ parses' = [parses EXCEPT ![i].failed = TRUE]
  /\ SessionUnchanged
  /\ UNCHANGED <<outbox, log>>

\* The collaborator of this specification is any sender at all: it posts any
\* message at any time, and the worker handles it at once.  Only the bounds
\* stop it.
CanPost == PostsInPlay < MaxPosted

CanIngest(n) == RowsInPlay + n <= MaxTotalRows

\* no classifier call on its own
NoCall == [fn |-> "none", arg |-> <<>>]

InitCall == call = NoCall /\ ret = Null

Init == InitWorker /\ InitApp /\ InitCall

Next ==
  \/ CanPost /\ HandleReset /\ UNCHANGED <<appVars, callVars>>
  \/ CanPost /\ HandleFinalize /\ UNCHANGED <<appVars, callVars>>
  \/ \E file \in Files : \E selectedColumn \in Selectors :
        /\ CanPost /\ CanIngest(file.rows)
        /\ HandleProcessFile(file, selectedColumn) /\ UNCHANGED <<appVars, callVars>>
  \/ \E text \in Texts :
        /\ CanPost /\ CanIngest(Len(Matches[text]))
        /\ HandleProcessText(text) /\ UNCHANGED <<appVars, callVars>>
  \/ \E i \in 1..Len(parses) : \E rows \in SeqsUpTo(Rows, parses[i].remaining) :
        ParseChunk(i, rows) /\ UNCHANGED <<appVars, callVars>>
  \/ \E i \in 1..Len(parses) : ParseComplete(i) /\ UNCHANGED <<appVars, callVars>>

Spec == Init /\ [][Next]_vars

\* ------------------------------------------------------------- controller
DotCsv == <<".", "c", "s", "v">>

isCsv(file) == endsWith(file.name, DotCsv)

\* the header fields of the tabular files (FileStage.columns): what the
\* column selector of a staged tabular file offers
Columns == {"Email", "domain"}

\* a text file: its name and what FileReader.readAsText gives for it (the
\* empty text, or one token)
TextFiles == [name : {TxtName}, text : {<<>>} \cup Tokens]

\* the candidates a file holds
Candidates(file) == IF isCsv(file) THEN file.rows ELSE Len(Matches[file.text])

\* Candidates, tabulated
Sizes == [file \in Files \cup TextFiles |-> Candidates(file)]

\* the stages of a list once the pre-scans are over; ids are distinct.  A
\* tabular stage has one of the columns of its file selected, or none: ''
\* when the pre-scan found no address column (status pending) or when the
\* "Select Column..." option was chosen (status ready).
Stages(id) ==
  [id : {id}, file : Files, selectedColumn : Columns, status : {"ready"}]
    \cup [id : {id}, file : Files, selectedColumn : {""}, status : {"pending", "ready"}]
    \cup [id : {id}, file : TextFiles, selectedColumn : {""}, status : {"ready"}]

RECURSIVE TotalCandidates(_, _)
TotalCandidates(stages, sizes) ==
  IF stages = <<>> THEN 0
  ELSE sizes[Head(stages).file] + TotalCandidates(Tail(stages), sizes)

RECURSIVE ListsOf(_, _)
\* the lists of n stages that hold at most MaxTotalRows candidates in all
ListsOf(n, sizes) ==
  IF n = 0
  THEN {<<>>}
  ELSE UNION { { Append(stages, stage) :
                   stage \in { st \in Stages(n) :
                                TotalCandidates(stages, sizes) + sizes[st.file]
                                  <= MaxTotalRows } } :
               stages \in ListsOf(n - 1, sizes) }

StagedLists == LET sizes == Sizes IN UNION { ListsOf(n, sizes) : n \in 1..MaxStaged }

\* setStagedFiles(prev => prev.map(f => f.id === id ? { ...f, status } : f))
setStatus(stages, id, status) ==
  [k \in 1..Len(stages) |->
     IF stages[k].id = id THEN [stages[k] EXCEPT !.status = status] ELSE stages[k]]

ResetMsg == [action |-> "reset"]

FinalizeMsg == [action |-> "finalize"]

ProcessFileMsg(stage) ==
  [action |-> "process", file |-> stage.file, selectedColumn |-> stage.selectedColumn]

ProcessTextMsg(text) == [action |-> "process", text |-> text]

\* processFile(stage), up to the promise it returns: the stage is marked,
\* a tabular file is posted at once, any other file is handed to a FileReader
processFile(stages, k, box) ==
  /\ stagedFiles' = setStatus(stages, stages[k].id, "processing")
  /\ cur' = k
  /\ IF isCsv(stages[k].file)
     THEN inbox' = Append(box, ProcessFileMsg(stages[k])) /\ pc' = "awaiting"
     ELSE inbox' = box /\ pc' = "reading"

\* a run button that is enabled whatever the column selections are
RunBatchProcessingAnyColumn ==
  /\ pc = "idle"
  /\ Len(stagedFiles) > 0
  /\ ~isProcessing
  /\ isProcessing' = TRUE
  /\ processFile(stagedFiles, 1, <<ResetMsg>>)
  /\ UNCHANGED <<results, delivered>>
  /\ UNCHANGED workerVars

\* the click on the run button, which is shown when a source is staged and
\* disabled while a batch runs or a tabular stage has no column selected:
\* runBatchProcessing up to its first await
RunBatchProcessing ==
  /\ pc = "idle"
  /\ Len(stagedFiles) > 0
  /\ ~isProcessing
  /\ \A k \in 1..Len(stagedFiles) :
        isCsv(stagedFiles[k].file) => stagedFiles[k].selectedColumn # ""
  /\ isProcessing' = TRUE
  /\ processFile(stagedFiles, 1, <<ResetMsg>>)
  /\ UNCHANGED <<results, delivered>>
  /\ UNCHANGED workerVars

\* reader.onload of the stage being processed
ReaderOnLoad ==
  /\ pc = "reading"
  /\ inbox' = Append(inbox, ProcessTextMsg(stagedFiles[cur].file.text))
  /\ pc' = "awaiting"
  /\ UNCHANGED <<stagedFiles, isProcessing, results, delivered, cur>>
  /\ UNCHANGED workerVars

\* the next message of the worker reaches the main thread
NextDelivery == outbox[delivered + 1]

Deliverable == pc # "done" /\ delivered < Len(outbox)

\* a loop that leaves one stage too early
afterStageSkipsLast(stages, k, box) ==
  IF k + 1 < Len(stages)
  THEN processFile(stages, k + 1, box)
  ELSE /\ stagedFiles' = stages
       /\ inbox' = Append(box, FinalizeMsg)
       /\ pc' = "finalizing"
       /\ cur' = k

\* the for loop once the promise of stage k has resolved: the next stage is
\* processed or, after the last one, 'finalize' is posted
afterStage(stages, k, box) ==
  IF k < Len(stages)
  THEN processFile(stages, k + 1, box)
  ELSE /\ stagedFiles' = stages
       /\ inbox' = Append(box, FinalizeMsg)
       /\ pc' = "finalizing"
       /\ cur' = k

\* the listener processFile added sees 'file_complete': the stage is marked
\* done, the promise resolves and the for loop goes on
OnFileComplete ==
  /\ Deliverable
  /\ pc \in {"reading", "awaiting"}
  /\ NextDelivery.action = "file_complete"
  /\ delivered' = delivered + 1
  /\ afterStage(setStatus(stagedFiles, stagedFiles[cur].id, "done"), cur, inbox)
  /\ UNCHANGED <<isProcessing, results>>
  /\ UNCHANGED workerVars

\* worker.onmessage as set after 'finalize' was posted
OnResult ==
  /\ Deliverable
  /\ pc = "finalizing"
  /\ NextDelivery.action = "result"
  /\ delivered' = delivered + 1
  /\ results' = NextDelivery.results
  /\ isProcessing' = FALSE
  /\ pc' = "done"
  /\ UNCHANGED <<stagedFiles, inbox, cur>>
  /\ UNCHANGED workerVars

\* a listener that resolves the promise on whatever message comes
OnAnyMessage ==
  /\ Deliverable
  /\ ~(pc \in {"reading", "awaiting"} /\ NextDelivery.action = "file_complete")
  /\ ~(pc = "finalizing" /\ NextDelivery.action = "result")
  /\ delivered' = delivered + 1
  /\ IF pc = "awaiting"
     THEN afterStage(setStatus(stagedFiles, stagedFiles[cur].id, "done"), cur, inbox)
     ELSE UNCHANGED <<stagedFiles, inbox, pc, cur>>
  /\ UNCHANGED <<isProcessing, results>>
  /\ UNCHANGED workerVars

\* a message no listener acts on
OnOtherMessage ==
  /\ Deliverable
  /\ ~(pc \in {"reading", "awaiting"} /\ NextDelivery.action = "file_complete")
  /\ ~(pc = "finalizing" /\ NextDelivery.action = "result")
  /\ delivered' = delivered + 1
  /\ UNCHANGED <<stagedFiles, isProcessing, results, inbox, pc, cur>>
  /\ UNCHANGED workerVars

\* the worker takes the oldest message of its queue; it runs until
\* worker.terminate()
Running == pc # "done"

Receive ==
  /\ Running
  /\ inbox # <<>>
  /\ inbox' = Tail(inbox)
  /\ UNCHANGED mainVars

InitBatch ==
  /\ InitWorker
  /\ InitCall
  /\ stagedFiles \in StagedLists
  /\ isProcessing = FALSE
  /\ results = Null
  /\ inbox = <<>>
  /\ delivered = 0
  /\ pc = "idle"
  /\ cur = 0

NextBatch ==
  \/ RunBatchProcessing /\ UNCHANGED callVars
  \/ ReaderOnLoad /\ UNCHANGED callVars
  \/ OnFileComplete /\ UNCHANGED callVars
  \/ OnResult /\ UNCHANGED callVars
  \/ OnOtherMessage /\ UNCHANGED callVars
  \/ Receive /\ Head(inbox).action = "reset" /\ HandleReset /\ UNCHANGED callVars
  \/ Receive /\ Head(inbox).action = "finalize" /\ HandleFinalize /\ UNCHANGED callVars
  \/ /\ Receive
     /\ Head(inbox).action = "process" /\ "file" \in DOMAIN Head(inbox)
     /\ HandleProcessFile(Head(inbox).file, Head(inbox).selectedColumn)
     /\ UNCHANGED callVars
  \/ /\ Receive
     /\ Head(inbox).action = "process" /\ "file" \notin DOMAIN Head(inbox)
     /\ HandleProcessText(Head(inbox).text)
     /\ UNCHANGED callVars
  \/ \E i \in 1..Len(parses) : \E rows \in SeqsUpTo(Rows, parses[i].remaining) :
        Running /\ ParseChunk(i, rows) /\ UNCHANGED <<appVars, callVars>>
  \/ \E i \in 1..Len(parses) :
        Running /\ ParseComplete(i) /\ UNCHANGED <<appVars, callVars>>
  \/ \E i \in 1..Len(parses) :
        Running /\ ParseError(i) /\ UNCHANGED <<appVars, callVars>>

SpecBatch == InitBatch /\ [][NextBatch]_vars

\* ------------------------------------------------ the single-source page
\* App.tsx: one source, a file or a pasted text, handed to a worker of its
\* own by processData.  pc is "idle" until the button is clicked, "awaiting"
\* while the worker lives, and after the handler ran "shown" when it could
\* read the results and "failed" when reading them threw.
\* what reading a field gives that the message does not have: undefined
NoResults == [undefined |-> TRUE]

\* e.data.results
ResultsOf(data) == IF "results" \in DOMAIN data THEN data.results ELSE NoResults

\* e.data.results.valid.length + e.data.results.invalid.length can be read
Readable(res) == {"valid", "invalid"} \subseteq DOMAIN res

\* processData with the paste tab active and pastedText not ''
ProcessDataText(text) ==
  /\ pc = "idle"
  /\ ~isProcessing
  /\ text # <<>>
  /\ isProcessing' = TRUE
  /\ inbox' = Append(inbox, ProcessTextMsg(text))
  /\ pc' = "awaiting"
  /\ UNCHANGED <<stagedFiles, results, delivered, cur>>
  /\ UNCHANGED workerVars

\* processData with the upload tab active and a file chosen
ProcessDataFile(file, selectedColumn) ==
  /\ pc = "idle"
  /\ ~isProcessing
  /\ isProcessing' = TRUE
  /\ inbox' = Append(inbox, [action |-> "process", file |-> file,
                              selectedColumn |-> selectedColumn])
  /\ pc' = "awaiting"
  /\ UNCHANGED <<stagedFiles, results, delivered, cur>>
  /\ UNCHANGED workerVars

\* worker.onmessage as set by processData: the results of the message are
\* stored, their lengths are read for the audit entry, the worker is
\* terminated
OnProcessDataMessage ==
  /\ pc = "awaiting"
  /\ delivered < Len(outbox)
  /\ delivered' = delivered + 1
  /\ results' = ResultsOf(NextDelivery)
  /\ isProcessing' = FALSE
  /\ pc' = IF Readable(ResultsOf(NextDelivery)) THEN "shown" ELSE "failed"
  /\ UNCHANGED <<stagedFiles, inbox, cur>>
  /\ UNCHANGED workerVars

\* the worker of processData lives until worker.terminate()
Alive == pc = "awaiting"

ReceiveData ==
  /\ Alive
  /\ inbox # <<>>
  /\ inbox' = Tail(inbox)
  /\ UNCHANGED mainVars

NextData ==
  \/ \E text \in Texts : ProcessDataText(text) /\ UNCHANGED callVars
  \/ \E file \in Files : \E selectedColumn \in Selectors :
        ProcessDataFile(file, selectedColumn) /\ UNCHANGED callVars
  \/ OnProcessDataMessage /\ UNCHANGED callVars
  \/ /\ ReceiveData
     /\ "file" \in DOMAIN Head(inbox)
     /\ HandleProcessFile(Head(inbox).file, Head(inbox).selectedColumn)
     /\ UNCHANGED callVars
  \/ /\ ReceiveData
     /\ "file" \notin DOMAIN Head(inbox)
     /\ HandleProcessText(Head(inbox).text)
     /\ UNCHANGED callVars
  \/ \E i \in 1..Len(parses) : \E rows \in SeqsUpTo(Rows, parses[i].remaining) :
        Alive /\ ParseChunk(i, rows) /\ UNCHANGED <<appVars, callVars>>
  \/ \E i \in 1..Len(parses) :
        Alive /\ ParseComplete(i) /\ UNCHANGED <<appVars, callVars>>
  \/ \E i \in 1..Len(parses) :
        Alive /\ ParseError(i) /\ UNCHANGED <<appVars, callVars>>

SpecData == Init /\ [][NextData]_vars

\* ------------------------------------------------- the classifier alone
\* validateEmail applied on its own to the addresses the worker hands it:
\* normalized, with one '@'.  The local parts are every role prefix alone,
\* followed by ".team", followed by "ing" and preceded by "x", and a plain
\* name; the domains two disposable ones, a sub-domain of a disposable
\* one, a personal and a corporate one.
LocalParts ==
  UNION { { ROLE_PREFIXES[p],
            ROLE_PREFIXES[p] \o <<".", "t", "e", "a", "m">>,
            ROLE_PREFIXES[p] \o <<"i", "n", "g">>,
            <<"x">> \o ROLE_PREFIXES[p] } : p \in 1..Len(ROLE_PREFIXES) }
    \cup { <<"j", "o", "h", "n">> }

DomainParts ==
  { <<"y", "o", "p", "m", "a", "i", "l", ".", "c", "o", "m">>,
    <<"m", "a", "i", "l", "i", "n", "a", "t", "o", "r", ".", "c", "o", "m">>,
    <<"x", ".", "m", "a", "i", "l", "i", "n", "a", "t", "o", "r", ".", "c", "o", "m">>,
    <<"g", "m", "a", "i", "l", ".", "c", "o", "m">>,
    <<"c", "o", "r", "p", ".", "i", "o">> }

EmailInputs == { l \o <<"@">> \o d : l \in LocalParts, d \in DomainParts }

\* addresses as a caller other than the worker may write them: not
\* lower-cased
MixedCaseInputs ==
  { <<"S", "U", "P", "P", "O", "R", "T", "@", "E", "x", "a", "m", "p", "l", "e", ".", "c", "o", "m">>,
    <<"S", "u", "p", "p", "o", "r", "t", ".", "T", "e", "a", "m", "@", "c", "o", "r", "p", ".", "i", "o">>,
    <<"S", "U", "P", "P", "O", "R", "T", "I", "N", "G", "@", "M", "a", "i", "l", "i", "n", "a", "t", "o", "r", ".", "c", "o", "m">>,
    <<"I", "n", "f", "o", "@", "Y", "O", "P", "M", "A", "I", "L", ".", "C", "O", "M">>,
    <<"J", "o", "h", "n", "@", "G", "m", "a", "i", "l", ".", "C", "o", "m">> }

\* analyzeDomain applied on its own: to the domains above, to every personal
\* domain, to a sub-domain and a prefix of one, and to one not lower-cased
DomainInputs ==
  DomainParts \cup PERSONAL_DOMAINS
    \cup { <<"m", "a", "i", "l", ".", "g", "m", "a", "i", "l", ".", "c", "o", "m">>,
           <<"g", "m", "a", "i", "l", ".", "c", "o">>,
           <<"G", "m", "a", "i", "l", ".", "c", "o", "m">>,
           <<"l", "o", "c", "a", "l", "h", "o", "s", "t">> }

\* the worker is about to classify an address or a domain
InitCalls ==
  /\ InitWorker
  /\ InitApp
  /\ call \in { [fn |-> "none", arg |-> arg] :
                  arg \in EmailInputs \cup MixedCaseInputs \cup DomainInputs }
  /\ ret = Null

\* const { isDisposable, isRoleBased } = validateEmail(email)
CallValidateEmail ==
  /\ call.fn = "none"
  /\ call.arg \in EmailInputs \cup MixedCaseInputs
  /\ call' = [call EXCEPT !.fn = "validateEmail"]
  /\ ret' = validateEmail(call.arg)
  /\ UNCHANGED <<workerVars, appVars>>

\* const { tld, type } = analyzeDomain(domain)
CallAnalyzeDomain ==
  /\ call.fn = "none"
  /\ call.arg \in DomainInputs
  /\ call' = [call EXCEPT !.fn = "analyzeDomain"]
  /\ ret' = analyzeDomain(call.arg)
  /\ UNCHANGED <<workerVars, appVars>>

\* const domain = email.split('@')[1], and the fields derived from it
CallDerived ==
  /\ call.fn = "none"
  /\ call.arg \in EmailInputs
  /\ call' = [call EXCEPT !.fn = "derived"]
  /\ ret' = Derived(call.arg)
  /\ UNCHANGED <<workerVars, appVars>>

NextCall ==
  \/ CallValidateEmail
  \/ CallAnalyzeDomain
  \/ CallDerived

SpecCall == InitCalls /\ [][NextCall]_vars

\* ================================================================== claims
\* ----------------------------------------------------- shared vocabulary
\* the addresses of the records in valid
Accepted == {valid[i].extractedEmail : i \in 1..Len(valid)}

\* raw differs from the address addr only by letter case and by whitespace
\* around it
DiffersOnlyByCaseOrPadding(raw, addr) ==
  \E lo \in 1..(Len(raw) + 1) :
     LET hi == lo + Len(addr) - 1
     IN  /\ hi <= Len(raw)
         /\ \A k \in 1..(lo - 1) : raw[k] \in Whitespace
         /\ \A k \in (hi + 1)..Len(raw) : raw[k] \in Whitespace
         /\ \A k \in 1..Len(addr) : ToLowerChar(raw[lo + k - 1]) = ToLowerChar(addr[k])

\* the candidates the inputs hold: the values of the rows and the matches of
\* the texts, as written, trimmed, and lower-cased and trimmed
KnownCandidates ==
  LET written == UNION { {row[c] : c \in DOMAIN row} : row \in Rows }
                   \cup UNION { Range(Matches[text]) : text \in Texts }
  IN  written \cup {trim(raw) : raw \in written}
              \cup {trim(toLowerCase(raw)) : raw \in written}

\* DiffersOnlyByCaseOrPadding, tabulated for the known candidates
KnownForms ==
  [raw \in KnownCandidates |->
     {addr \in KnownCandidates : DiffersOnlyByCaseOrPadding(raw, addr)}]

IsFormOf(raw, addr) ==
  IF raw \in KnownCandidates /\ addr \in KnownCandidates
  THEN addr \in KnownForms[raw]
  ELSE DiffersOnlyByCaseOrPadding(raw, addr)

\* the positions of the history whose candidate is a form of address addr
FormsOf(addr) ==
  LET sl == sessionLog
  IN  {j \in 1..Len(sl) : ~sl[j].missing /\ IsFormOf(sl[j].raw, addr)}

\* the positions of the history whose candidate is a form of an accepted
\* address that an earlier candidate already was a form of
Repeats ==
  LET forms == [addr \in Accepted |-> FormsOf(addr)]
  IN  {j \in 1..Len(sessionLog) :
         \E addr \in Accepted :
            j \in forms[addr] /\ \E i \in forms[addr] : i < j}

NoRepeat(seq) == \A i \in 1..Len(seq) : \A j \in 1..Len(seq) : seq[i] = seq[j] => i = j

OnlyRows == \A j \in 1..Len(sessionLog) : sessionLog[j].kind = "row"

Posted(action) == \E i \in 1..Len(outbox) : outbox[i].action = action

\* C1: after any sequence of resets and ingested rows, totalRows equals
\* duplicates + syntaxErrors + the number of records in valid.
CounterIdentity ==
  stats.totalRows = stats.duplicates + stats.syntaxErrors + Len(valid)

\* a tabular-only session that has counted a record, a
\* duplicate and a syntax error
CounterIdentityWitness ==
  /\ OnlyRows
  /\ Len(valid) >= 1 /\ stats.duplicates >= 1 /\ stats.syntaxErrors >= 1

\* C2: a candidate that differs only by letter case or surrounding
\* whitespace from an address accepted earlier in the session (in the same or
\* an earlier source) adds no record and counts as one duplicate: duplicates
\* is the number of such candidates, and each accepted address has exactly one
\* record.
DedupAcrossSources ==
  /\ stats.duplicates = Cardinality(Repeats)
  /\ \A addr \in Accepted :
        Cardinality({i \in 1..Len(valid) : valid[i].extractedEmail = addr}) = 1

\* a@me.com accepted from a text source, then ' A@Me.COM ' in a tabular one
DedupAcrossSourcesWitness ==
  /\ Len(sessionLog) = 2
  /\ sessionLog[1].kind = "text" /\ sessionLog[2].kind = "row"
  /\ sessionLog[1].raw # sessionLog[2].raw
  /\ Repeats = {2}
  /\ Len(valid) = 1 /\ stats.duplicates = 1
  /\ Posted("file_complete")

\* C3: no address occurs twice in valid, in disposable or in roleBased.
NoDuplicateAddresses ==
  /\ NoRepeat([i \in 1..Len(valid) |-> valid[i].extractedEmail])
  /\ NoRepeat(disposable)
  /\ NoRepeat(roleBased)

\* a flagged address was ingested again, from a second source
NoDuplicateAddressesWitness ==
  /\ Len(disposable) = 1 /\ Len(roleBased) = 1
  /\ \E j \in Repeats : DiffersOnlyByCaseOrPadding(sessionLog[j].raw, disposable[1])
  /\ Posted("file_complete")

\* C4 as stated: no value occurs twice in invalid.
InvalidHasNoDuplicates == NoRepeat(invalid)

\* the positions of the history whose candidate is a present tabular value
\* that is no form of an accepted address: the malformed values
Malformed ==
  LET sl    == sessionLog
      forms == [addr \in Accepted |-> FormsOf(addr)]
  IN  {j \in 1..Len(sl) :
         /\ sl[j].kind = "row" /\ ~sl[j].missing
         /\ \A addr \in Accepted : j \notin forms[addr]}

\* C4: invalid is not deduplicated: it holds one entry per ingestion of a
\* malformed non-empty value, and none of its entries is in seenEmails.
InvalidOnePerIngestion ==
  /\ Len(invalid) = Cardinality(Malformed)
  /\ \A i \in 1..Len(invalid) : invalid[i] \notin seenEmails

\* the same malformed value ingested twice, and twice in invalid
InvalidOnePerIngestionWitness ==
  /\ Len(sessionLog) = 2 /\ sessionLog[1] = sessionLog[2]
  /\ Len(invalid) = 2 /\ invalid[1] = invalid[2]

\* C5: seenEmails is exactly the set of addresses of the records in valid,
\* one record per address.
SeenIsValid ==
  /\ seenEmails = Accepted
  /\ Cardinality(seenEmails) = Len(valid)

\* an address accepted, cleared by a reset, and accepted again
SeenIsValidWitness ==
  /\ LastReset > 1
  /\ \E addr \in seenEmails : \E j \in 1..(LastReset - 1) :
        ~log[j].missing /\ DiffersOnlyByCaseOrPadding(log[j].raw, addr)

\* the first position of the session's history whose candidate is a form of
\* address addr
FirstSeen(addr) ==
  LET forms == FormsOf(addr)
  IN  CHOOSE j \in forms : \A k \in forms : j <= k

\* the sources the worker has completed
Completed == Cardinality({i \in 1..Len(outbox) : outbox[i].action = "file_complete"})

\* the candidates of staged source k that the worker has examined: all of
\* them once the source is complete, the rows delivered so far of a parse
\* in flight, none before
IngestedOf(k) ==
  IF k <= Completed
  THEN Candidates(stagedFiles[k].file)
  ELSE IF k = Completed + 1 /\ parses # <<>>
  THEN stagedFiles[k].file.rows - parses[1].remaining
  ELSE 0

RECURSIVE IngestedBefore(_)
IngestedBefore(k) == IF k = 1 THEN 0 ELSE IngestedBefore(k - 1) + IngestedOf(k - 1)

\* The history is the staged sources one after the other, in staging order:
\* first what was examined of source 1, then of source 2, ...; the entries of
\* a text source are its matches from left to right.
SubmissionOrder ==
  LET sl == sessionLog
  IN  /\ Len(parses) <= 1
      /\ Len(sl) = IngestedBefore(Len(stagedFiles) + 1)
      /\ \A k \in 1..Len(stagedFiles) : \A n \in 1..IngestedOf(k) :
            LET entry == sl[IngestedBefore(k) + n]
            IN  IF isCsv(stagedFiles[k].file)
                THEN entry.kind = "row"
                ELSE entry = TextEntry(Matches[stagedFiles[k].file.text][n])

\* the records of valid are in the order their addresses were first examined
FirstSeenOrder ==
  /\ \A i \in 1..Len(valid) : FormsOf(valid[i].extractedEmail) # {}
  /\ LET first == [i \in 1..Len(valid) |-> FirstSeen(valid[i].extractedEmail)]
     IN  \A i \in 1..Len(valid) : \A j \in 1..Len(valid) :
            i < j <=> first[i] < first[j]

\* C6: the records of valid are in first-seen order: one record precedes
\* another exactly when the first candidate normalizing to its address was
\* examined before the first candidate normalizing to the other's, the
\* candidates being examined source by source in staging order and within a
\* source in source order.
FirstSeenInSubmissionOrder == FirstSeenOrder /\ SubmissionOrder

\* a finished batch of a text source and then a tabular one: info@yopmail.com
\* precedes a@me.com, against the alphabet, and the tabular source repeated
\* the address of the text
FirstSeenInSubmissionOrderWitness ==
  /\ pc = "done"
  /\ Len(stagedFiles) = 2
  /\ ~isCsv(stagedFiles[1].file) /\ isCsv(stagedFiles[2].file)
  /\ Len(results.valid) = 2
  /\ results.valid[1].extractedEmail[1] = "i"
  /\ results.valid[2].extractedEmail[1] = "a"
  /\ Repeats # {}

\* C7: handling 'reset' leaves seenEmails, valid, disposable, roleBased and
\* invalid empty and the three counters 0, and posts one 'reset_complete'.
ResetClearsSession ==
  [][ HandleReset =>
        /\ seenEmails' = {}
        /\ valid' = <<>> /\ disposable' = <<>> /\ roleBased' = <<>> /\ invalid' = <<>>
        /\ stats' = [totalRows |-> 0, duplicates |-> 0, syntaxErrors |-> 0]
        /\ outbox' = Append(outbox, [action |-> "reset_complete"]) ]_vars

\* a reset just handled, of a session that had examined candidates
ResetClearsSessionWitness ==
  /\ LastReset > 1 /\ LastReset = Len(log)
  /\ \E j \in 1..(LastReset - 1) : log[j].kind = "row" /\ ~log[j].missing
  /\ outbox # <<>> /\ outbox[Len(outbox)].action = "reset_complete"
  /\ valid = <<>> /\ stats.totalRows = 0

\* C8: reset is idempotent: in the state a 'reset' leaves, a second 'reset'
\* would leave the same session state.
ResetIdempotent ==
  [][ HandleReset => resetSession(Session') = Session' ]_vars

\* two resets handled in a row
ResetIdempotentWitness ==
  /\ Len(log) >= 2
  /\ log[Len(log)].kind = "reset" /\ log[Len(log) - 1].kind = "reset"
  /\ Len(outbox) >= 2
  /\ outbox[Len(outbox)].action = "reset_complete"
  /\ outbox[Len(outbox) - 1].action = "reset_complete"
  /\ Session = EmptySession

\* C9: handling 'finalize' changes nothing of the session and posts one
\* 'result' message carrying the current valid, disposable, roleBased,
\* invalid and stats.
FinalizeIsPureRead ==
  [][ HandleFinalize =>
        /\ UNCHANGED <<seenEmails, valid, disposable, roleBased, invalid, stats>>
        /\ outbox' = Append(outbox,
             [ action  |-> "result",
               results |-> [ valid |-> valid, disposable |-> disposable,
                             roleBased |-> roleBased, invalid |-> invalid,
                             stats |-> stats ] ]) ]_vars

\* a 'result' just posted for a session with records and rejected values
FinalizeIsPureReadWitness ==
  /\ outbox # <<>> /\ outbox[Len(outbox)].action = "result"
  /\ outbox[Len(outbox)].results.valid = valid
  /\ Len(valid) >= 1 /\ Len(invalid) >= 1

ProcessPosted ==
  CASE pc = "idle" -> 0
    [] pc = "reading" -> cur - 1
    [] OTHER -> cur

\* the 'process' messages the worker has handled
ProcessHandled ==
  ProcessPosted - Cardinality({i \in 1..Len(inbox) : inbox[i].action = "process"})

\* C11: every 'process' message the worker has handled, tabular or text of any
\* content, the empty string included, is answered by exactly one
\* 'file_complete': at any moment the handled messages are the answered ones
\* plus the tabular ones whose rows are still being delivered.
EveryProcessIsAnswered == ProcessHandled = Completed + Len(parses)

\* C11, the part that holds: a 'process' message with a file or with a
\* non-empty text is answered by exactly one 'file_complete'.
EveryNonEmptyProcessIsAnswered ==
  (\A k \in 1..Len(stagedFiles) :
      isCsv(stagedFiles[k].file) \/ stagedFiles[k].file.text # <<>>)
    => ProcessHandled = Completed + Len(parses)

EveryNonEmptyProcessIsAnsweredWitness ==
  /\ pc = "done"
  /\ Len(stagedFiles) = 2
  /\ ~isCsv(stagedFiles[1].file)
  /\ isCsv(stagedFiles[2].file)
  /\ Completed = 2

\* ------------------------------------------------------------------ C12
\* the 'process' messages waiting in the worker's queue
InboxProcess == {i \in 1..Len(inbox) : inbox[i].action = "process"}

\* the 'file_complete' messages the main thread has received
CompletesReceived ==
  Cardinality({i \in 1..delivered : outbox[i].action = "file_complete"})

\* the 'process' message of a stage
ProcessMsgOf(stage) ==
  IF isCsv(stage.file) THEN ProcessFileMsg(stage) ELSE ProcessTextMsg(stage.file.text)

\* C12: the controller processes the staged sources strictly in staging order
\* and never in parallel: at most one source is posted or being parsed, it is
\* the stage the loop is at, the stages before it are done and the ones after
\* it untouched, and the 'process' of stage i+1 is posted only once the
\* 'file_complete' of stage i has been received; so a candidate repeating an
\* address of an earlier source is counted as a duplicate in the result.
StagesOneByOne ==
  /\ Cardinality(InboxProcess) + Len(parses) <= 1
  /\ ProcessPosted <= CompletesReceived + 1
  /\ \A i \in InboxProcess : inbox[i] = ProcessMsgOf(stagedFiles[cur])
  /\ pc \in {"reading", "awaiting"} =>
        /\ CompletesReceived = cur - 1
        /\ \A k \in 1..Len(stagedFiles) :
              stagedFiles[k].status =
                 IF k < cur THEN "done" ELSE IF k = cur THEN "processing" ELSE "ready"
  /\ pc = "done" =>
        /\ results.stats.duplicates = Cardinality(Repeats)
        /\ NoRepeat([i \in 1..Len(results.valid) |-> results.valid[i].extractedEmail])

\* a batch of two sources of one candidate each, the second repeating the
\* address of the first
StagesOneByOneWitness ==
  /\ pc = "done"
  /\ Len(stagedFiles) = 2
  /\ Candidates(stagedFiles[1].file) = 1 /\ Candidates(stagedFiles[2].file) = 1
  /\ results.stats.duplicates = 1
  /\ Len(results.valid) = 1

\* ------------------------------------------------------------------ C13
\* the 'finalize' messages posted so far: the ones still queued and the ones
\* already answered by a 'result'
FinalizePosted ==
  Cardinality({i \in 1..Len(inbox) : inbox[i].action = "finalize"})
    + Cardinality({i \in 1..Len(outbox) : outbox[i].action = "result"})

StepLeft ==
  \/ pc = "reading"
  \/ Deliverable
  \/ Running /\ inbox # <<>>
  \/ Running /\ \E i \in 1..Len(parses) : ~parses[i].failed
  \/ /\ pc = "idle" /\ ~isProcessing /\ Len(stagedFiles) > 0
     /\ \A k \in 1..Len(stagedFiles) :
           isCsv(stagedFiles[k].file) => stagedFiles[k].selectedColumn # ""

\* no step of the batch is taken from a state without a step left
OnlyStepsLeft == [][StepLeft]_vars

\* reading a staged tabular source has failed
SourceFailed == \E i \in 1..Len(parses) : parses[i].failed

\* C14: when reading one staged tabular source fails, the batch is neither
\* aborted nor stalled: the controller is notified, goes on to the next staged
\* source and to 'finalize'; so until the result has arrived there is always
\* a step of the batch left to take.
BadSourceDoesNotStall == SourceFailed => (pc = "done" \/ StepLeft)

\* ------------------------------------------------------------------ C15
\* C15: no operation blocks indefinitely: a batch started by
\* runBatchProcessing, whatever the staged sources are, none of them failing
\* to be read, always has a step left to take until it has received the
\* 'result' message and left the processing state.
BatchNeverBlocks == (isProcessing /\ ~SourceFailed) => StepLeft

\* ------------------------------------------------------------------ C16
\* 'finalize' has returned a snapshot and no 'reset' has been handled since
Finalized ==
  \E i \in 1..Len(outbox) :
     /\ outbox[i].action = "result"
     /\ \A j \in (i + 1)..Len(outbox) : outbox[j].action # "reset_complete"

\* C16: after 'finalize' has returned the snapshot the engine is inert until
\* the next 'reset': a 'process' message handled then leaves seenEmails,
\* valid, disposable, roleBased, invalid and stats unchanged.
InertAfterFinalize ==
  [][ (Finalized /\ \E text \in Texts : HandleProcessText(text)) => SessionUnchanged ]_vars

\* ------------------------------------------------------------------ C17
\* the matches of a text, lower-cased
LowerMatches(text) == [i \in 1..Len(Matches[text]) |-> toLowerCase(Matches[text][i])]

\* the matches whose lower-cased form is in seenEmails when they are
\* examined: it was there before the text, or an earlier match put it there
SeenWhenExamined(text) ==
  LET lower == LowerMatches(text)
  IN  {i \in 1..Len(lower) : lower[i] \in seenEmails \/ \E j \in 1..(i - 1) : lower[j] = lower[i]}

\* what a text source does to the counters and to valid
TextIngestEffect(text) ==
  LET lower == LowerMatches(text)
      n     == Len(lower)
      dups  == SeenWhenExamined(text)
      keep  == (1..n) \ dups
      nth   == [k \in 1..Cardinality(keep) |->
                  CHOOSE i \in keep : Cardinality({j \in keep : j < i}) = k - 1]
  IN  /\ stats'.totalRows = stats.totalRows + n
      /\ stats'.duplicates = stats.duplicates + Cardinality(dups)
      /\ stats'.syntaxErrors = stats.syntaxErrors
      /\ Len(valid') = Len(valid) + Cardinality(keep)
      /\ SubSeq(valid', 1, Len(valid)) = valid
      /\ \A k \in 1..Cardinality(keep) :
            valid'[Len(valid) + k].extractedEmail = lower[nth[k]]

\* the step started or advanced no parse and examined the matches of text
\* and nothing else, as every step handling text does
ExaminesText(text) ==
  /\ UNCHANGED parses
  /\ Len(log') = Len(log) + Len(Matches[text])
  /\ \A j \in 1..Len(Matches[text]) :
        log'[Len(log) + j] = TextEntry(Matches[text][j])

\* the step handled a text that is not '': only that posts file_complete for
\* 'Raw Text' and leaves the parses alone (handling '' changes nothing)
TextHandled ==
  /\ UNCHANGED parses
  /\ outbox' = Append(outbox, FileCompleteMsg(RawText))

\* the texts, by the matches they have
TextsMatching ==
  [ms \in {Matches[text] : text \in Texts} |-> {text \in Texts : Matches[text] = ms}]

\* the texts whose matches are the candidates the step examined; no other
\* text satisfies ExaminesText
TextsExamined ==
  LET added == [j \in 1..(Len(log') - Len(log)) |-> log'[Len(log) + j].raw]
  IN  IF added \in DOMAIN TextsMatching THEN TextsMatching[added] ELSE {}

\* C17: processing a text source whose matches are m1..mn, left to right,
\* adds n to totalRows, adds to duplicates the number of matches whose
\* lower-cased form was already in seenEmails when examined, and appends to
\* valid one record per remaining match, in order of first occurrence.
TextIngest ==
  [][ TextHandled =>
        \A text \in TextsExamined :
           (ExaminesText(text) /\ HandleProcessText(text)) => TextIngestEffect(text) ]_vars

\* a text of two matches, the second repeating the first, whose letters
\* were lower-cased: one record, one duplicate, totalRows 2
TextIngestWitness ==
  /\ outbox = <<FileCompleteMsg(RawText)>>
  /\ Len(sessionLog) = 2
  /\ sessionLog[1].kind = "text" /\ sessionLog[2] = sessionLog[1]
  /\ stats = [totalRows |-> 2, duplicates |-> 1, syntaxErrors |-> 0]
  /\ Len(valid) = 1
  /\ valid[1].extractedEmail # sessionLog[1].raw

\* ------------------------------------------------------------------ C18
\* the entries of seq at the positions keep, in order
Pick(seq, keep) ==
  [k \in 1..Cardinality(keep) |->
     seq[CHOOSE i \in keep : Cardinality({j \in keep : j < i}) = k - 1]]

\* What the rows of a tabular session do to the counters and to valid, told
\* from the values v1..vn at the selected column: the empty or absent ones,
\* the malformed and the well-formed ones (by their normalized form), and
\* the well-formed ones repeating an earlier one after normalization.
\* recorded(j) is what invalid is to hold for the malformed value j.
TabularIngestEffect(recorded(_)) ==
  LET sl         == sessionLog
      n          == Len(sl)
      norm       == [j \in 1..n |-> trim(toLowerCase(sl[j].raw))]
      absent     == {j \in 1..n : sl[j].missing}
      wellFormed == {j \in 1..n : ~sl[j].missing /\ syntaxTest(norm[j])}
      malformed  == {j \in 1..n : ~sl[j].missing /\ ~syntaxTest(norm[j])}
      repeating  == {j \in wellFormed : \E i \in wellFormed : i < j /\ norm[i] = norm[j]}
  IN  /\ stats.totalRows = n
      /\ stats.syntaxErrors = Cardinality(absent) + Cardinality(malformed)
      /\ stats.duplicates = Cardinality(repeating)
      /\ Len(valid) = Cardinality({norm[j] : j \in wellFormed})
      /\ Accepted = {norm[j] : j \in wellFormed}
      /\ invalid = Pick([j \in 1..n |-> recorded(j)], malformed)

RawValue(j) == sessionLog[j].raw

NormalizedValue(j) == trim(toLowerCase(sessionLog[j].raw))

\* C18: tabular ingest into a fresh session, for rows with selected-column
\* values v1..vn: totalRows is n, syntaxErrors the number of empty or absent
\* values plus the number of non-empty malformed ones, duplicates the number
\* of well-formed values repeating an earlier one after normalization, valid
\* has one record per distinct well-formed normalized value, and invalid is
\* exactly the sequence of the malformed non-empty values in row order.
TabularIngest == OnlyRows => TabularIngestEffect(RawValue)

\* C18 with invalid holding the normalized forms of the malformed non-empty
\* values: this is what the chunk callback does.
TabularIngestNormalized == OnlyRows => TabularIngestEffect(NormalizedValue)

\* a tabular session with a record, a repeat of it and a malformed value
\* whose normalized form differs from it
TabularIngestNormalizedWitness ==
  /\ OnlyRows
  /\ Len(valid) = 1 /\ stats.duplicates = 1 /\ stats.syntaxErrors = 1
  /\ Len(invalid) = 1
  /\ \E j \in 1..Len(sessionLog) : ~sessionLog[j].missing /\ invalid[1] # RawValue(j)

\* ------------------------------------------------------------------ C19
\* a staged tabular source has no valid column selector: none, or one that
\* names no column of the file
NoValidSelector ==
  \E k \in 1..Len(stagedFiles) :
     isCsv(stagedFiles[k].file) /\ stagedFiles[k].selectedColumn \notin Columns

LocalPartOf(email) ==
  LET at == CHOOSE i \in 1..Len(email) :
              email[i] = "@" /\ \A j \in 1..(i - 1) : email[j] # "@"
  IN  SubSeq(email, 1, at - 1)

\* local is a role prefix, or a role prefix followed by '.' and anything
IsRoleLocal(local) ==
  \E p \in 1..Len(ROLE_PREFIXES) :
     LET prefix == ROLE_PREFIXES[p]
     IN  \/ local = prefix
         \/ /\ Len(local) > Len(prefix)
            /\ SubSeq(local, 1, Len(prefix)) = prefix
            /\ local[Len(prefix) + 1] = "."

\* C20: validateEmail returns isRoleBased = true iff the local part exactly
\* equals one of ROLE_PREFIXES or starts with one of them followed by '.'.
RoleBasedRule ==
  (call.fn = "validateEmail" /\ call.arg \in EmailInputs) =>
     (ret.isRoleBased <=> IsRoleLocal(LocalPartOf(call.arg)))

\* 'support.team' was classified role-based
RoleBasedRuleWitness ==
  /\ call.fn = "validateEmail"
  /\ LocalPartOf(call.arg) = <<"s", "u", "p", "p", "o", "r", "t", ".", "t", "e", "a", "m">>
  /\ ret.isRoleBased

\* ------------------------------------------------------------------ C21
\* the text after the '@' of an address
DomainPartOf(email) ==
  LET at == CHOOSE i \in 1..Len(email) :
              email[i] = "@" /\ \A j \in 1..(i - 1) : email[j] # "@"
  IN  SubSeq(email, at + 1, Len(email))

\* C21: validateEmail returns isDisposable = true iff the domain, the text
\* after the '@', is exactly a member of DISPOSABLE_DOMAINS.
DisposableRule ==
  (call.fn = "validateEmail" /\ call.arg \in EmailInputs) =>
     (ret.isDisposable <=> DomainPartOf(call.arg) \in DISPOSABLE_DOMAINS)

\* an address at mailinator.com was classified disposable
DisposableRuleWitness ==
  /\ call.fn = "validateEmail"
  /\ DomainPartOf(call.arg) = <<"m", "a", "i", "l", "i", "n", "a", "t", "o", "r", ".", "c", "o", "m">>
  /\ ret.isDisposable

\* ------------------------------------------------------------------ C22
\* C22: analyzeDomain returns type 'Personal' iff the domain is a member of
\* PERSONAL_DOMAINS, and 'Corporate' for every other domain.
PersonalRule ==
  call.fn = "analyzeDomain" =>
     /\ ret.type \in {"Personal", "Corporate"}
     /\ ret.type = "Personal" <=> call.arg \in PERSONAL_DOMAINS

\* mail.gmail.com, no member of the list, was typed Corporate
PersonalRuleWitness ==
  /\ call.fn = "analyzeDomain"
  /\ call.arg = <<"m", "a", "i", "l", ".", "g", "m", "a", "i", "l", ".", "c", "o", "m">>
  /\ ret.type = "Corporate"

\* C22, for the records of the session: every record in valid has type
\* Personal or Corporate, Personal exactly when its domain is in
\* PERSONAL_DOMAINS.
ValidTypes ==
  \A i \in 1..Len(valid) :
     /\ valid[i].type \in {"Personal", "Corporate"}
     /\ valid[i].type = "Personal" <=> valid[i].domain \in PERSONAL_DOMAINS

ValidTypesWitness ==
  \E i \in 1..Len(valid) : \E j \in 1..Len(valid) :
     valid[i].type = "Personal" /\ valid[j].type = "Corporate"

\* ------------------------------------------------------------------ C23
\* C23: the classification is case-insensitive and depends on the address
\* alone: validateEmail gives an address and its lower-cased form the same
\* flags, the ones the two rules give the lower-cased form.
CaseInsensitive ==
  call.fn = "validateEmail" =>
     LET lower == toLowerCase(call.arg)
     IN  /\ ret = validateEmail(lower)
         /\ ret.isRoleBased <=> IsRoleLocal(LocalPartOf(lower))
         /\ ret.isDisposable <=> DomainPartOf(lower) \in DISPOSABLE_DOMAINS

\* SUPPORT@Example.com is role-based, as support@example.com is
CaseInsensitiveWitness ==
  /\ call.fn = "validateEmail"
  /\ call.arg = <<"S", "U", "P", "P", "O", "R", "T", "@", "E", "x", "a", "m", "p", "l", "e", ".", "c", "o", "m">>
  /\ ret = [isDisposable |-> FALSE, isRoleBased |-> TRUE]

\* C23, for the records of the session: whatever the session held when an
\* address was recorded, its record carries the flags validateEmail gives
\* the address.
ValidFlags ==
  \A i \in 1..Len(valid) :
     LET flags == validateEmail(valid[i].extractedEmail)
     IN  /\ valid[i].isDisposable = flags.isDisposable
         /\ valid[i].isRoleBased = flags.isRoleBased

\* ------------------------------------------------------------------ C24
\* the row has no value at the selected column: no such field, or ''
AbsentOrEmpty(row, selectedColumn) ==
  IF selectedColumn \in DOMAIN row THEN Len(row[selectedColumn]) = 0 ELSE TRUE

\* the step examined one row and nothing else
RowExamined ==
  /\ Len(log') = Len(log) + 1
  /\ log'[Len(log')].kind = "row"

\* the step is the chunk callback of parse i examining the one row
ExaminesRow(i, row) ==
  /\ Len(log') = Len(log) + 1
  /\ i \in 1..Len(parses)
  /\ log'[Len(log')] = RowEntry(row, parses[i].selectedColumn)
  /\ ParseChunk(i, <<row>>)

\* C24: a row with no value at the selected column adds one to totalRows and
\* one to syntaxErrors and leaves seenEmails, valid, disposable, roleBased,
\* invalid and duplicates as they were.
MissingValue ==
  [][RowExamined => \A i \in 1..Len(parses) : \A row \in Rows :
       (ExaminesRow(i, row) /\ AbsentOrEmpty(row, parses[i].selectedColumn)) =>
          /\ stats'.totalRows = stats.totalRows + 1
          /\ stats'.syntaxErrors = stats.syntaxErrors + 1
          /\ stats'.duplicates = stats.duplicates
          /\ UNCHANGED <<seenEmails, valid, disposable, roleBased, invalid>>]_vars

\* a session with a record and a malformed value, and then a row without a
\* value
MissingValueWitness ==
  /\ Len(sessionLog) = 3
  /\ sessionLog[3].kind = "row" /\ sessionLog[3].missing
  /\ Len(valid) = 1 /\ Len(invalid) = 1
  /\ stats.totalRows = 3 /\ stats.syntaxErrors = 2

\* ------------------------------------------------------------------ C25
\* C25: no entry of invalid is the empty string: a value that is empty, or
\* becomes empty after trimming, is never appended to invalid.
NoEmptyInvalid ==
  \A k \in 1..Len(invalid) : Len(invalid[k]) > 0

\* C25, the part about empty values: a session whose rows all lack a value
\* at the selected column has nothing in invalid.
MissingNeverInvalid ==
  (\A j \in 1..Len(sessionLog) : sessionLog[j].kind = "row" /\ sessionLog[j].missing)
     => invalid = <<>>

\* ------------------------------------------------------------------ C26
\* the values the rows examined since the last reset held at the selected
\* column, as they appear in the source
RawValues ==
  { sessionLog[j].raw : j \in { n \in 1..Len(sessionLog) :
                                  sessionLog[n].kind = "row" /\ ~sessionLog[n].missing } }

\* C26: each entry of invalid is the raw candidate string as it appears in
\* the source row, with its original case and whitespace.
InvalidIsRaw ==
  \A k \in 1..Len(invalid) : invalid[k] \in RawValues

\* C26, with the normalized form in place of the raw string: each entry of
\* invalid is the lower-cased, trimmed form of a value of the source.
InvalidIsNormalized ==
  \A k \in 1..Len(invalid) : invalid[k] \in { trim(toLowerCase(raw)) : raw \in RawValues }

InvalidIsNormalizedWitness ==
  /\ Len(invalid) = 2
  /\ invalid[1] = <<"z", "@", "z">>
  /\ invalid[2] = <<>>

\* ------------------------------------------------------------------ C27
\* the address pattern, stated on the positions of the string: no
\* whitespace, one '@' that is not the first character, and after it a '.'
\* with a character on either side
FitsPattern(addr) ==
  LET ats == {i \in 1..Len(addr) : addr[i] = "@"}
  IN  /\ Cardinality(ats) = 1
      /\ \A i \in 1..Len(addr) : addr[i] \notin Whitespace
      /\ \A at \in ats :
            /\ at > 1
            /\ \E p \in (at + 2)..(Len(addr) - 1) : addr[p] = "."

\* the value of the row at the selected column is there and, lower-cased
\* and trimmed, does not fit the pattern
MalformedValue(row, selectedColumn) ==
  /\ ~AbsentOrEmpty(row, selectedColumn)
  /\ ~FitsPattern(trim(toLowerCase(row[selectedColumn])))

IsDisposableRecord(rec) == rec.isDisposable

IsRoleBasedRecord(rec) == rec.isRoleBased

\* the addresses of a sequence of records, in its order
AddressesOf(recs) == [k \in 1..Len(recs) |-> recs[k].extractedEmail]

\* C28: disposable is the sequence of the addresses of the records of valid
\* flagged isDisposable, in the order they have in valid, and roleBased the
\* same for isRoleBased; an address flagged both ways is in both.
FlaggedLists ==
  /\ disposable = AddressesOf(SelectSeq(valid, IsDisposableRecord))
  /\ roleBased = AddressesOf(SelectSeq(valid, IsRoleBasedRecord))

\* three records: one disposable only, one with no flag, one flagged both
\* ways
FlaggedListsWitness ==
  /\ Len(valid) = 3
  /\ disposable = << <<"x", "@", "y", "o", "p", "m", "a", "i", "l", ".", "c", "o", "m">>,
                     <<"i", "n", "f", "o", "@", "y", "o", "p", "m", "a", "i", "l", ".", "c", "o", "m">> >>
  /\ roleBased = << <<"i", "n", "f", "o", "@", "y", "o", "p", "m", "a", "i", "l", ".", "c", "o", "m">> >>
  /\ ~valid[2].isDisposable /\ ~valid[2].isRoleBased

\* ------------------------------------------------------------------ C29
\* C29: the address of every record in valid, from a row or from a text, is
\* its own lower-cased trimmed form, holds no whitespace and exactly one
\* '@', and fits the pattern ^[^\s@]+@[^\s@]+\.[^\s@]+$.
RecordedAddressesWellFormed ==
  \A i \in 1..Len(valid) :
     LET addr == valid[i].extractedEmail
     IN  /\ addr = trim(toLowerCase(addr))
         /\ Cardinality({k \in 1..Len(addr) : addr[k] = "@"}) = 1
         /\ \A k \in 1..Len(addr) : addr[k] \notin Whitespace
         /\ FitsPattern(addr)

\* a session that recorded the match 'A@me.com' of a text and then the value
\* of a row
RecordedAddressesWellFormedWitness ==
  /\ Len(sessionLog) = 2
  /\ sessionLog[1] = TextEntry(<<"A", "@", "m", "e", ".", "c", "o", "m">>)
  /\ sessionLog[2].kind = "row"
  /\ Len(valid) = 2
  /\ valid[1].extractedEmail = <<"a", "@", "m", "e", ".", "c", "o", "m">>

\* ------------------------------------------------------------------ C30
\* C30: processing a text leaves invalid and syntaxErrors as they were; its
\* n matches add n to totalRows, and each adds one either to duplicates or
\* to the length of valid, so that totalRows = duplicates + syntaxErrors +
\* length(valid) holds afterwards, also when rows were ingested before.
TextCountsNoErrors ==
  [][ TextHandled => \A text \in TextsExamined :
        (ExaminesText(text) /\ HandleProcessText(text)) =>
           LET n          == Len(Matches[text])
               duplicates == stats'.duplicates - stats.duplicates
               records    == Len(valid') - Len(valid)
           IN  /\ invalid' = invalid
               /\ stats'.syntaxErrors = stats.syntaxErrors
               /\ stats'.totalRows = stats.totalRows + n
               /\ duplicates >= 0 /\ records >= 0
               /\ duplicates + records = n
               /\ stats'.totalRows =
                    stats'.duplicates + stats'.syntaxErrors + Len(valid') ]_vars

\* a malformed row value, then a text of two matches, the second repeating
\* the first: one syntax error, one record, one duplicate
TextCountsNoErrorsWitness ==
  /\ Len(sessionLog) = 3
  /\ sessionLog[1].kind = "row"
  /\ sessionLog[2].kind = "text" /\ sessionLog[3].kind = "text"
  /\ Len(invalid) = 1 /\ stats.syntaxErrors = 1
  /\ Len(valid) = 1 /\ stats.duplicates = 1
  /\ stats.totalRows = 3

\* ------------------------------------------------------------------ C31
\* the step answered a 'reset': only that posts 'reset_complete'
ResetHandled == outbox' = Append(outbox, ResetCompleteMsg)

\* old is the beginning of new, entry for entry
IsPrefix(old, new) ==
  /\ Len(old) <= Len(new)
  /\ \A k \in 1..Len(old) : new[k] = old[k]

\* C31: between resets the session only grows: a step that is no 'reset'
\* keeps seenEmails a superset of what it was, keeps valid, disposable,
\* roleBased and invalid as they were up to what it appends, the records
\* already there unmodified, and decreases no counter.
SessionOnlyGrows ==
  [][ ~ResetHandled =>
        /\ seenEmails \subseteq seenEmails'
        /\ IsPrefix(valid, valid')
        /\ IsPrefix(disposable, disposable')
        /\ IsPrefix(roleBased, roleBased')
        /\ IsPrefix(invalid, invalid')
        /\ stats'.totalRows >= stats.totalRows
        /\ stats'.duplicates >= stats.duplicates
        /\ stats'.syntaxErrors >= stats.syntaxErrors ]_vars

\* a session without reset that grew over several steps: two messages were
\* posted, and it holds two records, one of them flagged, and a malformed
\* value
SessionOnlyGrowsWitness ==
  /\ LastReset = 0
  /\ Len(outbox) >= 2
  /\ Len(valid) = 2 /\ Cardinality(seenEmails) = 2
  /\ Len(disposable) = 1
  /\ Len(invalid) = 1
  /\ stats.totalRows = 3

\* ------------------------------------------------------------------ C32
\* C32: a 'reset' handled while tabular sources are being parsed clears the
\* session and stops no parse: every parse keeps the rows it has still to
\* deliver; what is delivered after the reset is ingested into the cleared
\* session, which counts exactly the candidates examined since, with the
\* counter identity and no address twice in valid.
ResetMidParse ==
  /\ [][ (ResetHandled /\ parses # <<>>) =>
            /\ parses' = parses
            /\ seenEmails' = {} /\ valid' = <<>> /\ invalid' = <<>>
            /\ stats'.totalRows = 0 ]_vars
  /\ [](LastReset > 0 =>
          /\ stats.totalRows = Len(sessionLog)
          /\ stats.totalRows = stats.duplicates + stats.syntaxErrors + Len(valid)
          /\ Cardinality(Accepted) = Len(valid))

\* the one source of the session had two rows: the first was ingested, then
\* came the reset, then the second row was ingested into the cleared session
\* and 'file_complete' was posted
ResetMidParseWitness ==
  /\ Len(log) = 3
  /\ log[1].kind = "row" /\ log[2].kind = "reset" /\ log[3].kind = "row"
  /\ parses = <<>>
  /\ outbox = <<ResetCompleteMsg, FileCompleteMsg(CsvName)>>
  /\ stats.totalRows = 1 /\ Len(valid) = 1

\* ------------------------------------------------------------------ C33
\* the step ingested candidates of a tabular source: a chunk callback ran
RowsIngested ==
  /\ Len(log') > Len(log)
  /\ log'[Len(log')].kind = "row"

\* the step ingested the matches of a text
MatchesIngested ==
  /\ Len(log') > Len(log)
  /\ log'[Len(log')].kind = "text"

\* C33: one source is fully ingested before the next begins, however the
\* 'process' messages are spaced: rows are only ever ingested from the
\* oldest parse under way, every later one waiting with all its rows for the
\* 'file_complete' of that one, and a text is not ingested while a parse is
\* under way.
OneSourceAtATime ==
  [][ /\ RowsIngested => \A i \in 2..Len(parses) : parses'[i] = parses[i]
      /\ MatchesIngested => parses = <<>> ]_vars

\* C33 in terms of states: at most one source is being ingested.
OneIngestInFlight == Len(parses) <= 1

\* ------------------------------------------------------------------ C34
\* C34: every message the worker posts in answer to the 'process' request of
\* processData carries a results object with valid and invalid, so that the
\* handler of processData stores a results value and reads the lengths of
\* results.valid and results.invalid without failure.
ProcessDataReadsResults ==
  /\ \A i \in 1..Len(outbox) : Readable(ResultsOf(outbox[i]))
  /\ delivered > 0 => Readable(results)
  /\ pc # "failed"

\* C34, what holds in its place: the handler of processData never gets to
\* show results, since no answer to 'process' carries any.
ProcessDataNeverShown ==
  /\ pc # "shown"
  /\ \A i \in 1..Len(outbox) : outbox[i].action = "file_complete"

\* ------------------------------------------------------------------ C35
DerivedFields ==
  {"extractedEmail", "domain", "tld", "type", "isDisposable", "isRoleBased"}

\* the part of s after the last c, all of s when there is no c in it
AfterLast(s, c) ==
  IF \A i \in 1..Len(s) : s[i] # c
  THEN s
  ELSE LET last == CHOOSE i \in 1..Len(s) :
                      s[i] = c /\ \A j \in (i + 1)..Len(s) : s[j] # c
       IN  SubSeq(s, last + 1, Len(s))

\* the six derived fields of rec are what its address gives
DerivedFromAddress(rec) ==
  LET addr   == rec.extractedEmail
      domain == DomainPartOf(addr)
  IN  /\ rec.domain = domain
      /\ rec.tld = AfterLast(domain, ".")
      /\ rec.type = IF domain \in PERSONAL_DOMAINS THEN "Personal" ELSE "Corporate"
      /\ rec.isDisposable <=> domain \in DISPOSABLE_DOMAINS
      /\ rec.isRoleBased <=> IsRoleLocal(LocalPartOf(addr))

\* rec has the fields of row and the derived ones, its address is the
\* normalized value of one of the row's columns, and every column of the row
\* that has no derived field's name is in rec as it is in the row
BuiltFromRow(rec, row) ==
  /\ DOMAIN rec = (DOMAIN row) \cup DerivedFields
  /\ \E c \in DOMAIN row : rec.extractedEmail = trim(toLowerCase(row[c]))
  /\ \A c \in (DOMAIN row) \ DerivedFields : rec[c] = row[c]

OnlyTexts == \A j \in 1..Len(sessionLog) : sessionLog[j].kind = "text"

\* C35: the derived fields of every record are the values its normalized
\* address gives, also when the row has columns of those names; a record
\* built from a row has the row's other columns unchanged, and a record from
\* a text has the derived fields only.
RecordFields ==
  \A i \in 1..Len(valid) :
     /\ DerivedFromAddress(valid[i])
     /\ \/ DOMAIN valid[i] = DerivedFields
        \/ \E row \in Rows : BuiltFromRow(valid[i], row)
     /\ OnlyTexts => DOMAIN valid[i] = DerivedFields
     /\ OnlyRows => \E row \in Rows : BuiltFromRow(valid[i], row)

\* a record built from the row { Email: ' A@Me.COM ', domain: 'Z@z' } with
\* Email selected: Email is kept as written, domain is me.com; and after it a
\* record from a text
RecordFieldsWitness ==
  /\ Len(valid) = 2
  /\ "Email" \in DOMAIN valid[1]
  /\ valid[1].Email = <<" ", "A", "@", "M", "e", ".", "C", "O", "M", " ">>
  /\ valid[1].domain = <<"m", "e", ".", "c", "o", "m">>
  /\ DOMAIN valid[2] = DerivedFields

\* ------------------------------------------------------------------ C36
\* C36: the domain derived for an address is the text after its '@' and the
\* tld is the text of the domain after its last '.'; analyzeDomain returns
\* the whole string as tld for a domain with no '.' in it.
DomainAndTld ==
  /\ call.fn = "derived" =>
        /\ ret.domain = DomainPartOf(call.arg)
        /\ ret.tld = AfterLast(ret.domain, ".")
  /\ call.fn = "analyzeDomain" =>
        /\ ret.tld = AfterLast(call.arg, ".")
        /\ (\A i \in 1..Len(call.arg) : call.arg[i] # ".") => ret.tld = call.arg

\* localhost, a domain with no '.', was analyzed: its tld is localhost
DomainAndTldWitness ==
  /\ call.fn = "analyzeDomain"
  /\ call.arg = <<"l", "o", "c", "a", "l", "h", "o", "s", "t">>
  /\ ret.tld = call.arg

\* the fields of an address at a sub-domain were derived: the tld is com
DerivedTldWitness ==
  /\ call.fn = "derived"
  /\ ret.domain = <<"x", ".", "m", "a", "i", "l", "i", "n", "a", "t", "o", "r", ".", "c", "o", "m">>
  /\ ret.tld = <<"c", "o", "m">>

\* C36, for the records of the session: every record in valid has as domain
\* the text of extractedEmail after its '@' and as tld the text of domain
\* after its last '.'.
ValidDomains ==
  \A i \in 1..Len(valid) :
     /\ valid[i].domain = DomainPartOf(valid[i].extractedEmail)
     /\ valid[i].tld = AfterLast(valid[i].domain, ".")

\* a record for a@me.com: domain me.com, tld com
ValidDomainsWitness ==
  \E i \in 1..Len(valid) :
     /\ valid[i].extractedEmail = <<"a", "@", "m", "e", ".", "c", "o", "m">>
     /\ valid[i].domain = <<"m", "e", ".", "c", "o", "m">>
     /\ valid[i].tld = <<"c", "o", "m">>

==============================================================================
